---------------------------- MODULE Spec2Model ----------------------------
(***************************************************************************)
(* Model of webui/vite.config.ts: the declarations of the configuration    *)
(* object (plugins and their dts outputs, the scss additionalData, the     *)
(* cssCodeSplit toggle, the resolve.alias table, the server.proxy table)   *)
(* and the way the development server and the build consume them.          *)
(*                                                                         *)
(* Text is modelled as a sequence of units, so that matching, prefixing    *)
(* and rewriting are computed unit by unit.  A request URL is a sequence   *)
(* of characters; in an import specifier or a path the names between the   *)
(* separators ("src", "types", "..") are units; the directory of the       *)
(* configuration file (__dirname) and the proxy origin are single units.   *)
(* How the declarations are consumed (key matching, alias replacement,     *)
(* additionalData, cssCodeSplit) follows the build tool's documentation.   *)
(***************************************************************************)
EXTENDS Naturals, Sequences, FiniteSets

VARIABLES
    conns,        \* dev server: one record per connection slot
    upstreamUp,   \* dev server: whether the proxy target accepts connections
    resolution,   \* module resolution: the last import specifier resolved
    phase,        \* build: "setup", "modules" or "bundled"
    pluginsDone,  \* build: indexes of the plugins that have run
    files,        \* build: the declaration files written so far
    styleJob,     \* build: the last stylesheet handed to the style pipeline
    cssOf,        \* build: the output chunks that own some CSS
    cssAssets     \* build: the CSS assets of the bundle

devVars == <<conns, upstreamUp>>

buildVars == <<phase, pluginsDone, files, styleJob, cssOf, cssAssets>>

vars == <<conns, upstreamUp, resolution, phase, pluginsDone, files, styleJob,
          cssOf, cssAssets>>

-----------------------------------------------------------------------------
(* Bounds of the model *)

\* longest request URL the sequential dev-server specification draws
MaxUrlLen == 7

\* connection slots handled concurrently in the concurrent specification
MaxRequests == 2

\* characters a concurrent request's URL may add after a prefix of "/api/"
MaxTail == 0

\* longest import specifier, in units
MaxSpecLen == 5

\* output chunks (entries and dynamic imports) of the build
MaxChunks == 2

\* longest stylesheet, in statements
MaxStyleLen == 2

-----------------------------------------------------------------------------
(* Generic text helpers *)

StartsWith(text, prefix) ==
    /\ Len(text) >= Len(prefix)
    /\ SubSeq(text, 1, Len(prefix)) = prefix

Drop(text, n) == SubSeq(text, n + 1, Len(text))

\* all texts over alphabet of length 0..n
TextsUpTo(alphabet, n) == UNION {[1..k -> alphabet] : k \in 0..n}

-----------------------------------------------------------------------------
(* server.proxy *)

\* the key without the slash that ends the first segment: '^/api.*'
ProxyPatternNoSlash == <<"^", "/", "a", "p", "i", ".", "*">>

\* the key of the only proxy entry: '^/api/.*'
ProxyPattern == <<"^", "/", "a", "p", "i", "/", ".", "*">>

\* the value of the only proxy entry: 'http://127.0.0.1:7892' (one unit)
ProxyTarget == <<"http://127.0.0.1:7892">>

\* The proxy table. The string shorthand  key: 'origin'  stands for the
\* options { target } alone: no rewrite, no bypass, no configure hook.
ProxyRules == << [context |-> ProxyPattern, target |-> ProxyTarget] >>

\* new RegExp(re).test(text) for the syntax the key uses: a leading '^',
\* literal characters, '.', a trailing '$' and the postfix '*'.
RECURSIVE MatchHere(_, _)
MatchHere(re, text) ==
    IF re = <<>> THEN TRUE
    ELSE IF Len(re) >= 2 /\ re[2] = "*" THEN
        \E k \in 0..Len(text) :
            /\ \A j \in 1..k : re[1] = "." \/ text[j] = re[1]
            /\ MatchHere(Drop(re, 2), Drop(text, k))
    ELSE IF re = <<"$">> THEN text = <<>>
    ELSE IF text # <<>> /\ (re[1] = "." \/ re[1] = text[1]) THEN
        MatchHere(Tail(re), Tail(text))
    ELSE FALSE

\* a test that looks for the pattern anywhere in the text, anchored or not
RegExpTestUnanchored(re, text) ==
    \E i \in 0..Len(text) :
        MatchHere(IF re # <<>> /\ re[1] = "^" THEN Tail(re) ELSE re, Drop(text, i))

RegExpTest(re, text) ==
    IF re # <<>> /\ re[1] = "^"
    THEN MatchHere(Tail(re), text)
    ELSE \E i \in 0..Len(text) : MatchHere(re, Drop(text, i))

\* A key that starts with '^' is a regular expression, any other key is a
\* path prefix.
ContextMatches(context, url) ==
    IF context # <<>> /\ context[1] = "^"
    THEN RegExpTest(context, url)
    ELSE StartsWith(url, context)

\* indexes of the proxy entries whose key matches the URL
MatchingRules(url) ==
    {i \in 1..Len(ProxyRules) : ContextMatches(ProxyRules[i].context, url)}

FirstMatch(url) ==
    CHOOSE i \in MatchingRules(url) : \A j \in MatchingRules(url) : i <= j

\* a forward that drops the first path segment, as a rewrite option would
ForwardUrlStripped(rule, url) == rule.target \o Drop(url, 4)

\* the URL the forwarded request is sent to: the target origin followed by
\* the request's URL as received
ForwardUrl(rule, url) == rule.target \o url

-----------------------------------------------------------------------------
(* The development server *)

UrlChars == {"/", "a", "p", "i"}

\* request URLs in origin form (they begin with '/')
Urls == {u \in TextsUpTo(UrlChars, MaxUrlLen) : u # <<>> /\ u[1] = "/"}

\* the shortest URL the proxy entry's pattern is written for
ApiPrefix == <<"/", "a", "p", "i", "/">>

\* URLs of concurrent requests: a non-empty prefix of "/api/" followed by
\* at most MaxTail further characters
ConcUrls ==
    {SubSeq(ApiPrefix, 1, n) \o t :
        n \in 1..Len(ApiPrefix), t \in TextsUpTo(UrlChars, MaxTail)}

Slots == 1..MaxRequests

Idle ==
    [stage |-> "idle", url |-> <<>>, dest |-> "none", upstreamUrl |-> <<>>,
     attempts |-> 0, error |-> "none", outcome |-> "none"]

DevInit ==
    /\ conns = [s \in Slots |-> Idle]
    /\ upstreamUp = TRUE

\* a browser request for one of the URLs arrives on a free slot
Arrive(s, urls) ==
    /\ conns[s].stage = "idle"
    /\ \E u \in urls :
        conns' = [conns EXCEPT ![s] = [Idle EXCEPT !.stage = "received", !.url = u]]
    /\ UNCHANGED <<upstreamUp, resolution, buildVars>>

\* a middleware that keeps the decision of a request already routed and
\* still in flight, instead of deciding from the request's own URL
RouteSticky(s) ==
    /\ conns[s].stage = "received"
    /\ LET u == conns[s].url
           others == {t \in DOMAIN conns : t # s /\ conns[t].stage = "routed"}
           proxied == IF others # {}
                      THEN \E t \in others : conns[t].dest = "proxy"
                      ELSE MatchingRules(u) # {}
       IN  IF proxied
           THEN conns' = [conns EXCEPT
                    ![s].stage = "routed",
                    ![s].dest = "proxy",
                    ![s].upstreamUrl = ForwardUrl(ProxyRules[1], u)]
           ELSE conns' = [conns EXCEPT ![s].stage = "routed", ![s].dest = "local"]
    /\ UNCHANGED <<upstreamUp, resolution, buildVars>>

\* the proxy middleware: the first entry whose key matches takes the
\* request, otherwise it falls through to the dev server's own handlers
Route(s) ==
    /\ conns[s].stage = "received"
    /\ LET u == conns[s].url IN
        IF MatchingRules(u) # {}
        THEN conns' = [conns EXCEPT
                ![s].stage = "routed",
                ![s].dest = "proxy",
                ![s].upstreamUrl = ForwardUrl(ProxyRules[FirstMatch(u)], u)]
        ELSE conns' = [conns EXCEPT ![s].stage = "routed", ![s].dest = "local"]
    /\ UNCHANGED <<upstreamUp, resolution, buildVars>>

\* a failed forward answered by the dev server's own handlers
ForwardOutcomeFallback(rule, up) == IF up THEN "proxied" ELSE "served"

\* the outcome of the attempt to reach the target: the upstream's response,
\* or the error response when the connection is refused
ForwardOutcome(rule, up) == IF up THEN "proxied" ELSE "error"

\* the forward to the target: one connection attempt, whose failure ends
\* the request
Forward(s) ==
    /\ conns[s].stage = "routed"
    /\ conns[s].dest = "proxy"
    /\ conns' = [conns EXCEPT
            ![s].stage = "done",
            ![s].attempts = @ + 1,
            ![s].error = IF upstreamUp THEN "none" ELSE "ECONNREFUSED",
            ![s].outcome =
                ForwardOutcome(ProxyRules[FirstMatch(conns[s].url)], upstreamUp)]
    /\ UNCHANGED <<upstreamUp, resolution, buildVars>>

\* the dev server's own static / module handlers
ServeLocal(s) ==
    /\ conns[s].stage = "routed"
    /\ conns[s].dest = "local"
    /\ conns' = [conns EXCEPT ![s].stage = "done", ![s].outcome = "served"]
    /\ UNCHANGED <<upstreamUp, resolution, buildVars>>

\* the response is finished and the slot is free again
Close(s) ==
    /\ conns[s].stage = "done"
    /\ conns' = [conns EXCEPT ![s] = Idle]
    /\ UNCHANGED <<upstreamUp, resolution, buildVars>>

\* the backend on the target origin starts or stops
UpstreamChange ==
    /\ upstreamUp' = ~upstreamUp
    /\ UNCHANGED <<conns, resolution, buildVars>>

-----------------------------------------------------------------------------
(* resolve.alias *)

\* __dirname: the absolute directory of the configuration file (one unit)
ConfigDir == <<"__dirname">>

\* resolve(base, name) of node:path for an absolute base and a plain name
PathResolve(base, name) == base \o <<"/">> \o name

SrcDir == PathResolve(ConfigDir, <<"src">>)

TypesDir == PathResolve(ConfigDir, <<"types">>)

\* the alias table with '#' pointing at the source directory as well
AliasesBothSrc ==
    << [find |-> <<"@">>, replacement |-> SrcDir],
       [find |-> <<"#">>, replacement |-> SrcDir] >>

\* the alias table with the two targets exchanged
AliasesSwapped ==
    << [find |-> <<"@">>, replacement |-> TypesDir],
       [find |-> <<"#">>, replacement |-> SrcDir] >>

\* the alias table, in declaration order
Aliases ==
    << [find |-> <<"@">>, replacement |-> SrcDir],
       [find |-> <<"#">>, replacement |-> TypesDir] >>

\* a string key matches the specifier that is the key itself or that
\* continues it with '/'
AliasMatches(find, importee) ==
    /\ Len(importee) >= Len(find)
    /\ \/ importee = find
       \/ StartsWith(importee, find \o <<"/">>)

\* importee.replace(find, replacement): the first occurrence is replaced
ReplaceFirst(text, find, replacement) ==
    LET at == {i \in 1..(Len(text) + 1 - Len(find)) :
                    SubSeq(text, i, i + Len(find) - 1) = find}
    IN  IF at = {} THEN text
        ELSE LET i == CHOOSE k \in at : \A j \in at : k <= j
             IN  SubSeq(text, 1, i - 1) \o replacement
                    \o Drop(text, i + Len(find) - 1)

MatchingAliases(importee) ==
    {i \in 1..Len(Aliases) : AliasMatches(Aliases[i].find, importee)}

\* the specifier after the alias step: rewritten by the first entry that
\* matches, unchanged when none does
AliasRewrite(importee) ==
    IF MatchingAliases(importee) = {} THEN importee
    ELSE LET i == CHOOSE k \in MatchingAliases(importee) :
                        \A j \in MatchingAliases(importee) : k <= j
         IN  ReplaceFirst(importee, Aliases[i].find, Aliases[i].replacement)

\* the segments of a path, split at '/'
RECURSIVE Split(_)
Split(path) ==
    IF path = <<>> THEN << <<>> >>
    ELSE LET rest == Split(Tail(path))
         IN  IF Head(path) = "/"
             THEN << <<>> >> \o rest
             ELSE << <<Head(path)>> \o rest[1] >> \o Tail(rest)

\* the directory walk of a path: empty and '.' segments stay in place,
\* '..' goes up one level
RECURSIVE Walk(_, _)
Walk(stack, segs) ==
    IF segs = <<>> THEN stack
    ELSE IF Head(segs) = <<>> \/ Head(segs) = <<".">> THEN Walk(stack, Tail(segs))
    ELSE IF Head(segs) = <<"..">> THEN
        Walk(IF stack = <<>> THEN stack ELSE SubSeq(stack, 1, Len(stack) - 1),
             Tail(segs))
    ELSE Walk(Append(stack, Head(segs)), Tail(segs))

\* the place in the file system a path denotes
Location(path) == Walk(<<>>, Split(path))

\* the path denotes the directory or something below it
Under(dir, path) == StartsWith(Location(path), Location(dir))

SpecifierUnits == {"@", "#", "/", "..", "src", "types"}

NoImport == [stage |-> "idle", importee |-> <<>>, rewritten |-> <<>>]

ResolveInit == resolution = NoImport

\* a module imports one of the specifiers
Import(specifiers) ==
    /\ resolution.stage = "idle"
    /\ \E i \in specifiers :
        resolution' = [NoImport EXCEPT !.stage = "requested", !.importee = i]
    /\ UNCHANGED <<devVars, buildVars>>

\* the specifier goes through the alias step
ResolveId ==
    /\ resolution.stage = "requested"
    /\ resolution' = [resolution EXCEPT
            !.stage = "resolved",
            !.rewritten = AliasRewrite(resolution.importee)]
    /\ UNCHANGED <<devVars, buildVars>>

\* the module is loaded from the resolved path
Load ==
    /\ resolution.stage = "resolved"
    /\ resolution' = NoImport
    /\ UNCHANGED <<devVars, buildVars>>

-----------------------------------------------------------------------------
(* plugins *)

\* the plugin list with the components plugin writing to the auto-import
\* plugin's file
PluginsSharedDts ==
    << [name |-> "VueRouter",  dts |-> "types/dts/router-type.d.ts"],
       [name |-> "vue",        dts |-> ""],
       [name |-> "UnoCSS",     dts |-> ""],
       [name |-> "AutoImport", dts |-> "types/dts/auto-imports.d.ts"],
       [name |-> "Components", dts |-> "types/dts/auto-imports.d.ts"] >>

\* the plugin activations, in order, each with its dts option ("" when the
\* activation sets none)
Plugins ==
    << [name |-> "VueRouter",  dts |-> "types/dts/router-type.d.ts"],
       [name |-> "vue",        dts |-> ""],
       [name |-> "UnoCSS",     dts |-> ""],
       [name |-> "AutoImport", dts |-> "types/dts/auto-imports.d.ts"],
       [name |-> "Components", dts |-> "types/dts/components.d.ts"] >>

\* what the declaration file of a plugin declares
Declares(name) ==
    CASE name = "VueRouter"  -> "router types"
      [] name = "AutoImport" -> "auto-import types"
      [] name = "Components" -> "component types"
      [] OTHER               -> "nothing"

\* writing a file replaces what was at its path
WriteFile(fs, path, content) ==
    {f \in fs : f.path # path} \cup {[path |-> path, content |-> content]}

\* a plugin runs: it writes its declaration file when it has a dts path
RunPlugin(i) ==
    /\ phase = "setup"
    /\ i \notin pluginsDone
    /\ pluginsDone' = pluginsDone \cup {i}
    /\ files' = IF Plugins[i].dts = "" THEN files
                ELSE WriteFile(files, Plugins[i].dts, Declares(Plugins[i].name))
    /\ UNCHANGED <<phase, styleJob, cssOf, cssAssets, devVars, resolution>>

\* all plugins have run: the modules of the project are processed
StartModules ==
    /\ phase = "setup"
    /\ pluginsDone = 1..Len(Plugins)
    /\ phase' = "modules"
    /\ UNCHANGED <<pluginsDone, files, styleJob, cssOf, cssAssets, devVars,
                   resolution>>

-----------------------------------------------------------------------------
(* css.preprocessorOptions and build.cssCodeSplit *)

AdditionalData == <<"@import \"./src/style/mixin.scss\";">>

\* the options per preprocessor language: only scss has any
PreprocessorOptions == [l \in {"scss"} |-> [additionalData |-> AdditionalData]]

\* the fragment added after the file's own content
PreprocessorInputAppended(lang, source) ==
    IF lang \in DOMAIN PreprocessorOptions
    THEN source \o PreprocessorOptions[lang].additionalData
    ELSE source

\* the text handed to the compiler of a language: the language's
\* additionalData followed by the file's content
PreprocessorInput(lang, source) ==
    IF lang \in DOMAIN PreprocessorOptions
    THEN PreprocessorOptions[lang].additionalData \o source
    ELSE source

CssCodeSplitOn == TRUE

CssCodeSplit == FALSE

StyleLangs == {"scss", "less", "css"}

StyleStatements == {"@import \"./src/style/mixin.scss\";", "a{}"}

StyleSources == TextsUpTo(StyleStatements, MaxStyleLen)

Chunks == 1..MaxChunks

NoStyle == [lang |-> "none", source |-> <<>>, input |-> <<>>, chunk |-> 0]

\* a stylesheet of a module of chunk c goes through the style pipeline
TransformStyle(lang, source, c) ==
    /\ phase = "modules"
    /\ styleJob' = [lang |-> lang, source |-> source,
                    input |-> PreprocessorInput(lang, source), chunk |-> c]
    /\ cssOf' = cssOf \cup {c}
    /\ UNCHANGED <<phase, pluginsDone, files, cssAssets, devVars, resolution>>

\* the CSS assets of the bundle: one per chunk that owns CSS when the CSS
\* is split, otherwise one for all of it
CssOutputs(split, owners) ==
    IF split THEN {[name |-> "chunk", of |-> c] : c \in owners}
    ELSE IF owners = {} THEN {}
    ELSE {[name |-> "style", of |-> 0]}

\* the bundle is generated
GenerateBundle ==
    /\ phase = "modules"
    /\ phase' = "bundled"
    /\ cssAssets' = CssOutputs(CssCodeSplit, cssOf)
    /\ UNCHANGED <<pluginsDone, files, styleJob, cssOf, devVars, resolution>>

BuildInit ==
    /\ phase = "setup"
    /\ pluginsDone = {}
    /\ files = {}
    /\ styleJob = NoStyle
    /\ cssOf = {}
    /\ cssAssets = {}

-----------------------------------------------------------------------------
(* Specifications *)

Init == DevInit /\ ResolveInit /\ BuildInit

\* one request at a time, any URL up to MaxUrlLen
NextDev ==
    \/ Arrive(1, Urls)
    \/ Route(1)
    \/ Forward(1)
    \/ ServeLocal(1)
    \/ Close(1)
    \/ UpstreamChange

SpecDev == Init /\ [][NextDev]_vars

\* up to MaxRequests requests in flight, interleaved in any order
NextConc ==
    \/ \E s \in Slots : Arrive(s, ConcUrls)
    \/ \E s \in Slots : Route(s)
    \/ \E s \in Slots : Forward(s)
    \/ \E s \in Slots : ServeLocal(s)
    \/ \E s \in Slots : Close(s)
    \/ UpstreamChange

SpecConc == Init /\ [][NextConc]_vars


\* import specifiers of up to MaxSpecLen units go through the alias step
Specifiers == TextsUpTo(SpecifierUnits, MaxSpecLen) \ {<<>>}

NextResolve ==
    \/ Import(Specifiers)
    \/ ResolveId
    \/ Load

SpecResolve == Init /\ [][NextResolve]_vars

\* one build: the plugins run in any order, then the modules' stylesheets
\* are transformed, then the bundle is generated
NextBuild ==
    \/ \E i \in 1..Len(Plugins) : RunPlugin(i)
    \/ StartModules
    \/ \E l \in StyleLangs, src \in StyleSources, c \in Chunks :
            TransformStyle(l, src, c)
    \/ GenerateBundle

SpecBuild == Init /\ [][NextBuild]_vars

-----------------------------------------------------------------------------
(* Properties of the development server *)

Origin == <<"http://127.0.0.1:7892">>

BeginsWithApi(url) ==
    Len(url) >= 5 /\ SubSeq(url, 1, 5) = <<"/", "a", "p", "i", "/">>

ContainsApiLater(url) ==
    \E i \in 2..Len(url) :
        i + 4 <= Len(url) /\ SubSeq(url, i, i + 4) = <<"/", "a", "p", "i", "/">>

Routed(s) == conns[s].stage \in {"routed", "done"}

\* C1: every request whose URL begins with '/api/' is forwarded, and the
\* URL it is sent to is the origin http://127.0.0.1:7892 followed by the
\* request's URL, unchanged.
C1_ApiForwardedUnchanged ==
    \A s \in Slots :
        (Routed(s) /\ BeginsWithApi(conns[s].url)) =>
            /\ conns[s].dest = "proxy"
            /\ conns[s].upstreamUrl = Origin \o conns[s].url

C1_Witness ==
    /\ conns[1].stage = "done"
    /\ conns[1].url = <<"/", "a", "p", "i", "/", "a">>
    /\ conns[1].outcome = "proxied"
    /\ conns[1].upstreamUrl =
            <<"http://127.0.0.1:7892", "/", "a", "p", "i", "/", "a">>

\* C2: a request whose URL does not begin with '/api/' is never forwarded:
\* no upstream URL, no connection attempt, and it ends served by the dev
\* server's own handlers.
C2_OthersServedLocally ==
    \A s \in Slots :
        (Routed(s) /\ ~BeginsWithApi(conns[s].url)) =>
            /\ conns[s].dest = "local"
            /\ conns[s].upstreamUrl = <<>>
            /\ conns[s].attempts = 0
            /\ conns[s].stage = "done" => conns[s].outcome = "served"

C2_Witness ==
    /\ conns[1].stage = "done"
    /\ conns[1].url = <<"/", "a", "/", "p", "i", "/", "a">>
    /\ conns[1].outcome = "served"
    /\ conns[1].attempts = 0

\* C8: with several requests in flight, interleaved in any order, every
\* request's routing is decided by its own URL alone: proxy to the one
\* origin when it begins with '/api/', local otherwise.
C8_RoutingIndependent ==
    \A s \in Slots :
        Routed(s) =>
            IF BeginsWithApi(conns[s].url)
            THEN conns[s].dest = "proxy"
                    /\ SubSeq(conns[s].upstreamUrl, 1, 1) = Origin
            ELSE conns[s].dest = "local"

C8_Witness ==
    \E s, t \in Slots :
        /\ s # t
        /\ conns[s].stage = "routed" /\ conns[s].dest = "proxy"
        /\ conns[t].stage = "routed" /\ conns[t].dest = "local"

\* C9: a forward that finds the target unreachable ends the request with
\* the error outcome after that single attempt; no request routed to the
\* proxy is ever served by the dev server's own handlers.
C9_RefusedEndsInError ==
    \A s \in Slots :
        /\ conns[s].error = "ECONNREFUSED" =>
            /\ conns[s].stage = "done"
            /\ conns[s].outcome = "error"
            /\ conns[s].attempts = 1
        /\ conns[s].dest = "proxy" =>
            /\ conns[s].outcome # "served"
            /\ conns[s].attempts <= 1

C9_Witness ==
    /\ conns[1].stage = "done"
    /\ BeginsWithApi(conns[1].url)
    /\ conns[1].error = "ECONNREFUSED"
    /\ conns[1].outcome = "error"
    /\ ~upstreamUp

\* C10: the pattern is anchored and needs the slash after 'api': '/api',
\* a URL that goes on after '/api' with another character than '/', and a
\* URL that holds '/api/' only after its start are not forwarded; '/api/'
\* itself is.
C10_AnchoredWithSlash ==
    \A s \in Slots :
        Routed(s) =>
            LET u == conns[s].url IN
            /\ u = <<"/", "a", "p", "i">> => conns[s].dest = "local"
            /\ (Len(u) > 4 /\ SubSeq(u, 1, 4) = <<"/", "a", "p", "i">> /\ u[5] # "/")
                    => conns[s].dest = "local"
            /\ (ContainsApiLater(u) /\ ~BeginsWithApi(u)) => conns[s].dest = "local"
            /\ u = <<"/", "a", "p", "i", "/">> => conns[s].dest = "proxy"

C10_Witness ==
    /\ conns[1].stage = "done"
    /\ conns[1].url = <<"/", "a", "/", "a", "p", "i", "/">>
    /\ conns[1].dest = "local"
    /\ conns[1].outcome = "served"

-----------------------------------------------------------------------------
(* Properties of the alias table *)

SourceDirectory == <<"__dirname", "/", "src">>

TypesDirectory == <<"__dirname", "/", "types">>

\* the segments climb above the directory they start in
RECURSIVE ClimbsOut(_, _)
ClimbsOut(segs, depth) ==
    IF segs = <<>> THEN FALSE
    ELSE IF Head(segs) = <<"..">> THEN
        depth = 0 \/ ClimbsOut(Tail(segs), depth - 1)
    ELSE IF Head(segs) = <<>> \/ Head(segs) = <<".">> THEN
        ClimbsOut(Tail(segs), depth)
    ELSE ClimbsOut(Tail(segs), depth + 1)

\* the part of a specifier after its one-character alias
Remainder(importee) == SubSeq(importee, 2, Len(importee))

Resolved(prefix) ==
    /\ resolution.stage = "resolved"
    /\ Len(resolution.importee) >= 2
    /\ SubSeq(resolution.importee, 1, 2) = prefix

\* C3 as stated: every specifier that starts with '@/' is rewritten to a
\* path under the source directory and never to one under the types
\* directory.
C3_AsStated ==
    Resolved(<<"@", "/">>) =>
        /\ Under(SourceDirectory, resolution.rewritten)
        /\ ~Under(TypesDirectory, resolution.rewritten)

\* C3 as amended: a specifier that starts with '@/' is rewritten to the
\* source directory followed by the rest of the specifier; the path lies
\* under the source directory, and not under the types directory, whenever
\* the rest does not climb out with '..' segments.
C3_AtRewrittenToSrc ==
    Resolved(<<"@", "/">>) =>
        /\ resolution.rewritten = SourceDirectory \o Remainder(resolution.importee)
        /\ ~ClimbsOut(Split(Remainder(resolution.importee)), 0) =>
            /\ Under(SourceDirectory, resolution.rewritten)
            /\ ~Under(TypesDirectory, resolution.rewritten)

C3_Witness ==
    /\ resolution.stage = "resolved"
    /\ resolution.importee = <<"@", "/", "types", "/", "src">>
    /\ resolution.rewritten =
            <<"__dirname", "/", "src", "/", "types", "/", "src">>
    /\ Under(SourceDirectory, resolution.rewritten)

\* C4 as stated: every specifier that starts with '#/' is rewritten to a
\* path under the types directory and never to one under the source
\* directory.
C4_AsStated ==
    Resolved(<<"#", "/">>) =>
        /\ Under(TypesDirectory, resolution.rewritten)
        /\ ~Under(SourceDirectory, resolution.rewritten)

\* C4 as amended: a specifier that starts with '#/' is rewritten to the
\* types directory followed by the rest of the specifier; the path lies
\* under the types directory, and not under the source directory, whenever
\* the rest does not climb out with '..' segments.
C4_HashRewrittenToTypes ==
    Resolved(<<"#", "/">>) =>
        /\ resolution.rewritten = TypesDirectory \o Remainder(resolution.importee)
        /\ ~ClimbsOut(Split(Remainder(resolution.importee)), 0) =>
            /\ Under(TypesDirectory, resolution.rewritten)
            /\ ~Under(SourceDirectory, resolution.rewritten)

C4_Witness ==
    /\ resolution.stage = "resolved"
    /\ resolution.importee = <<"#", "/", "src", "/", "types">>
    /\ resolution.rewritten =
            <<"__dirname", "/", "types", "/", "src", "/", "types">>
    /\ Under(TypesDirectory, resolution.rewritten)

-----------------------------------------------------------------------------
(* Properties of the build *)

\* C5: the bundle never holds more than one CSS asset, however many
\* stylesheets were transformed and however many chunks own CSS.
C5_AtMostOneCssChunk == Cardinality(cssAssets) <= 1

C5_Witness ==
    /\ phase = "bundled"
    /\ Cardinality(cssOf) >= 2
    /\ Cardinality(cssAssets) = 1

DtsPaths ==
    {"types/dts/router-type.d.ts", "types/dts/auto-imports.d.ts",
     "types/dts/components.d.ts"}

\* C6: once every plugin has run there are exactly three declaration files,
\* at three distinct fixed paths, the router types, the auto-import types
\* and the component types each at its own; and at no time has a plugin
\* that ran lost its file to another plugin.
C6_ThreeDistinctDeclarationFiles ==
    /\ Cardinality(DtsPaths) = 3
    /\ {f.path : f \in files} \subseteq DtsPaths
    /\ pluginsDone = 1..5 =>
        files = {[path |-> "types/dts/router-type.d.ts", content |-> "router types"],
                 [path |-> "types/dts/auto-imports.d.ts", content |-> "auto-import types"],
                 [path |-> "types/dts/components.d.ts", content |-> "component types"]}
    /\ \A i \in pluginsDone :
        Plugins[i].dts # "" =>
            [path |-> Plugins[i].dts, content |-> Declares(Plugins[i].name)] \in files

C6_Witness ==
    /\ phase = "bundled"
    /\ pluginsDone = 1..5
    /\ Cardinality(files) = 3

=============================================================================
